---- MODULE Spec2Model ----
(***************************************************************************)
(* Catalog of lab3/marketplace: the Category and Product tables, the       *)
(* category views (create / update / delete through CategoryForm), the     *)
(* product views (product_create, product_delete, product_list) and the    *)
(* paginator the listings use.                                             *)
(*                                                                         *)
(* Text is a sequence of one-character strings.  A request parameter that  *)
(* should hold a number is a record [t, v]: t = "none" (absent or the      *)
(* empty string), "text" (not a number), "int" (the decimal text of the    *)
(* integer v) or "frac" (the text of v + 0.5).                             *)
(* The database is the one Django configures by default: a UNIQUE column   *)
(* compares exactly (case-sensitively), iexact / icontains fold case.      *)
(***************************************************************************)
EXTENDS Integers, Sequences, FiniteSets, TLC

VARIABLES categories, products, nextCategoryId, nextProductId, result,
          page_obj, inflight

vars == <<categories, products, nextCategoryId, nextProductId, result,
          page_obj, inflight>>

store == <<categories, products, nextCategoryId, nextProductId>>

----------------------------------------------------------------------------
(* Bounds of the model.                                                    *)
MaxCategoryId == 2
MaxProductId == 2

----------------------------------------------------------------------------
(* Text helpers.                                                           *)
UpperLetters == <<"A","B","C","D","E","F","G","H","I","J","K","L","M",
                  "N","O","P","Q","R","S","T","U","V","W","X","Y","Z">>
LowerLetters == <<"a","b","c","d","e","f","g","h","i","j","k","l","m",
                  "n","o","p","q","r","s","t","u","v","w","x","y","z">>
Digits == {"0","1","2","3","4","5","6","7","8","9"}

Range(s) == {s[i] : i \in DOMAIN s}

LowerChar(c) ==
    IF \E i \in DOMAIN UpperLetters : UpperLetters[i] = c
    THEN LowerLetters[CHOOSE i \in DOMAIN UpperLetters : UpperLetters[i] = c]
    ELSE c

UpperChar(c) ==
    IF \E i \in DOMAIN LowerLetters : LowerLetters[i] = c
    THEN UpperLetters[CHOOSE i \in DOMAIN LowerLetters : LowerLetters[i] = c]
    ELSE c

Lower(s) == [i \in DOMAIN s |-> LowerChar(s[i])]
Upper(s) == [i \in DOMAIN s |-> UpperChar(s[i])]

(* name__iexact: equality after case folding.                              *)
IExact(a, b) == Lower(a) = Lower(b)

None == [t |-> "none", v |-> 0]
NoResult == [op |-> "none", status |-> "none", pk |-> 0, req |-> None,
             detail |-> {}]

----------------------------------------------------------------------------
(* Category: rows [id, name, description]; name is UNIQUE at the database  *)
(* (exact).                                                                *)
CategoryIds == {c.id : c \in categories}

(* clean_name with an exact lookup in place of iexact.                     *)
CleanNameMutant(name, pk, rows) == \A c \in rows : c.id = pk \/ ~(c.name = name)
(* CategoryForm.clean_name: the rows whose name matches case-insensitively, *)
(* the edited instance excluded; any such row is a validation error.       *)
CleanName(name, pk, rows) ==
    \A c \in rows : c.id = pk \/ ~IExact(c.name, name)

(* The UNIQUE constraint on Category.name, checked at write time.          *)
NameUnique(name, pk, rows) == \A c \in rows : c.id = pk \/ c.name # name

(* A foreign key that removes nothing with the category.                   *)
CascadeMutant(pk, rows) == {}
(* Product rows that the ON DELETE CASCADE of Product.category removes.    *)
Cascade(pk, rows) == {p \in rows : p.category = pk}

(* CategoryForm.is_valid: every field is cleaned on its own; name and      *)
(* description are required, and clean_name runs on a name that is given,  *)
(* against the rows read at that moment.                                   *)
FormErrors(name, description, pk, rows) ==
    {e \in {"Required", "DuplicateName"} :
        \/ e = "Required" /\ (name = <<>> \/ description = <<>>)
        \/ e = "DuplicateName" /\ name # <<>> /\ ~CleanName(name, pk, rows)}

FormStatus(name, description, pk, rows) ==
    IF FormErrors(name, description, pk, rows) = {} THEN "valid" ELSE "invalid"

(* form.save(): the INSERT or UPDATE, refused by the UNIQUE constraint.    *)
SaveStatus(name, pk, rows) ==
    IF NameUnique(name, pk, rows) THEN "saved" ELSE "IntegrityError"

(* The table after the write of row pk.                                    *)
Written(pk, name, description, rows) ==
    {c \in rows : c.id # pk}
        \cup {[id |-> pk, name |-> name, description |-> description]}

(* CategoryCreateView: a POST of the form, validated and saved in one      *)
(* request.                                                                *)
CategoryCreate(name, description) ==
    /\ IF FormStatus(name, description, 0, categories) # "valid"
       THEN /\ result' = [op |-> "category_create",
                          status |-> "invalid",
                          pk |-> 0, req |-> name,
                          detail |-> FormErrors(name, description, 0, categories)]
            /\ UNCHANGED store
       ELSE IF SaveStatus(name, 0, categories) # "saved"
       THEN /\ result' = [op |-> "category_create", status |-> "IntegrityError",
                          pk |-> 0, req |-> name,
                          detail |-> {}]
            /\ UNCHANGED store
       ELSE /\ nextCategoryId <= MaxCategoryId
            /\ categories' = Written(nextCategoryId, name, description, categories)
            /\ nextCategoryId' = nextCategoryId + 1
            /\ result' = [op |-> "category_create", status |-> "created",
                          pk |-> nextCategoryId, req |-> name,
                          detail |-> {}]
            /\ UNCHANGED <<products, nextProductId>>
    /\ UNCHANGED <<page_obj, inflight>>

(* CategoryUpdateView: a POST of the form bound to the instance pk.        *)
CategoryUpdate(pk, name, description) ==
    /\ IF pk \notin CategoryIds
       THEN /\ result' = [op |-> "category_update", status |-> "NotFound",
                          pk |-> pk, req |-> name,
                          detail |-> {}]
            /\ UNCHANGED store
       ELSE IF FormStatus(name, description, pk, categories) # "valid"
       THEN /\ result' = [op |-> "category_update",
                          status |-> "invalid",
                          pk |-> pk, req |-> name,
                          detail |-> FormErrors(name, description, pk, categories)]
            /\ UNCHANGED store
       ELSE IF SaveStatus(name, pk, categories) # "saved"
       THEN /\ result' = [op |-> "category_update", status |-> "IntegrityError",
                          pk |-> pk, req |-> name,
                          detail |-> {}]
            /\ UNCHANGED store
       ELSE /\ categories' = Written(pk, name, description, categories)
            /\ result' = [op |-> "category_update", status |-> "updated",
                          pk |-> pk, req |-> name,
                          detail |-> {}]
            /\ UNCHANGED <<products, nextCategoryId, nextProductId>>
    /\ UNCHANGED <<page_obj, inflight>>

(* CategoryDeleteView: a POST; the row and its products go in one          *)
(* transaction.                                                            *)
CategoryDelete(pk) ==
    /\ IF pk \notin CategoryIds
       THEN /\ result' = [op |-> "category_delete", status |-> "NotFound",
                          pk |-> pk, req |-> None,
                          detail |-> {}]
            /\ UNCHANGED store
       ELSE /\ categories' = {c \in categories : c.id # pk}
            /\ products' = products \ Cascade(pk, products)
            /\ result' = [op |-> "category_delete", status |-> "deleted",
                          pk |-> pk, req |-> None,
                          detail |-> {p.id : p \in Cascade(pk, products)}]
            /\ UNCHANGED <<nextCategoryId, nextProductId>>
    /\ UNCHANGED <<page_obj, inflight>>

----------------------------------------------------------------------------
(* Product: rows [id, name, price, instock, code, description, category,   *)
(* created_at]; price is kept in hundredths (DecimalField, 2 places).      *)
Num(n) == [t |-> "int", v |-> n]
Frac(n) == [t |-> "frac", v |-> n]
Text == [t |-> "text", v |-> 0]

(* Python truth of a posted value: None and "" are false.                  *)
Truthy(x) == x.t # "none"
TruthyText(s) == s # <<>>

(* float(price): any decimal text parses; the value in hundredths.         *)
FloatOk(x) == x.t \in {"int", "frac"}
Float(x) == IF x.t = "frac" THEN x.v * 100 + 50 ELSE x.v * 100

(* int(instock) and the id lookup: only the text of an integer parses.     *)
IntOk(x) == x.t = "int"
Int_(x) == x.v

(* str(uuid.uuid4()): 8-4-4-4-12 lower-case hex digits, version 4.         *)
HexSample == {"0", "a"}
Uuid4Str(h) == <<h, h, h, h, h, h, h, h, "-", h, h, h, h, "-", "4", h, h, h,
                 "-", "a", h, h, h, "-", h, h, h, h, h, h, h, h, h, h, h, h>>
UuidSample == {Uuid4Str(h) : h \in HexSample}

(* str(uuid.uuid4())[:8].upper()                                           *)
CodeLength == 8
(* The code without .upper().                                             *)
GenerateCodeMutant(u) == SubSeq(u, 1, CodeLength)
GenerateCode(u) == Upper(SubSeq(u, 1, CodeLength))

ProductIds == {p.id : p \in products}
ProductCodes(rows) == {p.code : p \in rows}

(* Product.save: a row without a code gets a generated one.                *)
ProductSaveCode(row, u) ==
    IF row.code = <<>> THEN [row EXCEPT !.code = GenerateCode(u)] ELSE row

(* The INSERT without the UNIQUE constraint on code.                       *)
InsertOkMutant(row, rows) == row.instock >= 0
(* The INSERT: UNIQUE(code) and the CHECK (instock >= 0) of                *)
(* PositiveIntegerField; a violation is an IntegrityError.                 *)
InsertOk(row, rows) ==
    /\ row.code \notin ProductCodes(rows)
    /\ row.instock >= 0

(* The row product_create builds once every conversion has succeeded.      *)
NewProduct(req) ==
    [id |-> nextProductId, name |-> req.name, price |-> Float(req.price),
     instock |-> Int_(req.instock), code |-> GenerateCode(req.token),
     description |-> req.description, category |-> Int_(req.category),
     created_at |-> nextProductId]

(* The outcome were the price and the stock converted before the category  *)
(* is looked up.                                                           *)
CreateStatusMutant(req) ==
    IF ~(TruthyText(req.name) /\ Truthy(req.price) /\ TruthyText(req.description)
         /\ Truthy(req.instock) /\ Truthy(req.category))
    THEN "AllFieldsRequired"
    ELSE IF ~IntOk(req.category) THEN "ValueError"
    ELSE IF ~FloatOk(req.price) \/ ~IntOk(req.instock) THEN "ValueError"
    ELSE IF Int_(req.category) \notin CategoryIds THEN "DoesNotExist"
    ELSE IF ~InsertOk(ProductSaveCode(NewProduct(req), req.token), products)
    THEN "Exception"
    ELSE "created"
(* The outcome of product_create's POST branch, in the order the code      *)
(* reaches its checks.                                                     *)
CreateStatus(req) ==
    IF ~(TruthyText(req.name) /\ Truthy(req.price) /\ TruthyText(req.description)
         /\ Truthy(req.instock) /\ Truthy(req.category))
    THEN "AllFieldsRequired"
    ELSE IF ~IntOk(req.category) THEN "ValueError"
    ELSE IF Int_(req.category) \notin CategoryIds THEN "DoesNotExist"
    ELSE IF ~FloatOk(req.price) \/ ~IntOk(req.instock) THEN "ValueError"
    ELSE IF ~InsertOk(ProductSaveCode(NewProduct(req), req.token), products)
    THEN "Exception"
    ELSE "created"

(* product_create, POST.                                                   *)
ProductCreate(req) ==
    /\ IF CreateStatus(req) = "created"
       THEN /\ nextProductId <= MaxProductId
            /\ products' = products
                   \cup {ProductSaveCode(NewProduct(req), req.token)}
            /\ nextProductId' = nextProductId + 1
            /\ result' = [op |-> "product_create", status |-> "created",
                          pk |-> nextProductId, req |-> req,
                          detail |-> {}]
       ELSE /\ UNCHANGED <<products, nextProductId>>
            /\ result' = [op |-> "product_create", status |-> CreateStatus(req),
                          pk |-> 0, req |-> req,
                          detail |-> {}]
    /\ UNCHANGED <<categories, nextCategoryId, page_obj, inflight>>

(* Product.save on a new instance whose code is not set.                   *)
ProductSave(row, u) ==
    /\ row.id = nextProductId /\ row.created_at = nextProductId
    /\ row.code = <<>>
    /\ row.category \in CategoryIds
    /\ IF InsertOk(ProductSaveCode(row, u), products)
       THEN /\ nextProductId <= MaxProductId
            /\ products' = products \cup {ProductSaveCode(row, u)}
            /\ nextProductId' = nextProductId + 1
            /\ result' = [op |-> "product_save", status |-> "created",
                          pk |-> nextProductId, req |-> u,
                          detail |-> {}]
       ELSE /\ result' = [op |-> "product_save", status |-> "IntegrityError",
                          pk |-> 0, req |-> u,
                          detail |-> {}]
            /\ UNCHANGED <<products, nextProductId>>
    /\ UNCHANGED <<categories, nextCategoryId, page_obj, inflight>>

(* product_delete, POST.                                                   *)
ProductDelete(pk) ==
    /\ IF pk \notin ProductIds
       THEN /\ result' = [op |-> "product_delete", status |-> "NotFound",
                          pk |-> pk, req |-> None,
                          detail |-> {}]
            /\ UNCHANGED products
       ELSE /\ products' = {p \in products : p.id # pk}
            /\ result' = [op |-> "product_delete", status |-> "deleted",
                          pk |-> pk, req |-> None,
                          detail |-> {}]
    /\ UNCHANGED <<categories, nextCategoryId, nextProductId,
                   page_obj, inflight>>

(* product_detail: get_object_or_404.                                      *)
GetProduct(pk, rows) ==
    IF \E p \in rows : p.id = pk THEN "found" ELSE "NotFound"

----------------------------------------------------------------------------
(* Querysets: ordering and the icontains search.                           *)

(* Product.Meta.ordering = ['-created_at']: newest first.                  *)
RECURSIVE OrderedProducts(_)
OrderedProducts(rows) ==
    IF rows = {} THEN <<>>
    ELSE LET newest == CHOOSE p \in rows :
                           \A q \in rows : q.created_at <= p.created_at
         IN  <<newest>> \o OrderedProducts(rows \ {newest})

(* The code point order of the characters the model uses.                  *)
Collation == <<"-", "0","1","2","3","4","5","6","7","8","9">>
                 \o UpperLetters \o LowerLetters
CharCode(c) == CHOOSE i \in DOMAIN Collation : Collation[i] = c

RECURSIVE TextLess(_, _)
TextLess(a, b) ==
    IF b = <<>> THEN FALSE
    ELSE IF a = <<>> THEN TRUE
    ELSE IF Head(a) # Head(b) THEN CharCode(Head(a)) < CharCode(Head(b))
    ELSE TextLess(Tail(a), Tail(b))

(* Category.Meta.ordering = ['name']; names are unique.                    *)
RECURSIVE OrderedCategories(_)
OrderedCategories(rows) ==
    IF rows = {} THEN <<>>
    ELSE LET first == CHOOSE c \in rows :
                          \A d \in rows : d = c \/ TextLess(c.name, d.name)
         IN  <<first>> \o OrderedCategories(rows \ {first})

(* field LIKE '%q%' with case folded: q starts at some position of field.  *)
RECURSIVE StartsWith(_, _)
StartsWith(s, q) ==
    IF q = <<>> THEN TRUE
    ELSE IF s = <<>> THEN FALSE
    ELSE Head(s) = Head(q) /\ StartsWith(Tail(s), Tail(q))

RECURSIVE Contains(_, _)
Contains(s, q) ==
    IF StartsWith(s, q) THEN TRUE
    ELSE IF s = <<>> THEN FALSE
    ELSE Contains(Tail(s), q)

IContains(field, q) == Contains(Lower(field), Lower(q))

(* product_list's search: the three filters OR-ed into one WHERE clause,   *)
(* skipped when the parameter is absent or empty.                          *)
ProductMatch(p, q) ==
    IContains(p.name, q) \/ IContains(p.description, q) \/ IContains(p.code, q)

(* The search as the three result lists chained one after the other.       *)
ProductSearchMutant(rows, search) ==
    IF search = None \/ search.v = <<>> THEN rows
    ELSE SelectSeq(rows, LAMBDA p : IContains(p.name, search.v))
           \o SelectSeq(rows, LAMBDA p : IContains(p.description, search.v))
           \o SelectSeq(rows, LAMBDA p : IContains(p.code, search.v))
ProductSearch(rows, search) ==
    IF search = None \/ search.v = <<>> THEN rows
    ELSE SelectSeq(rows, LAMBDA p : ProductMatch(p, search.v))

(* CategoryListView.get_queryset: Q(name) | Q(description).                *)
CategorySearch(rows, search) ==
    IF search = None \/ search.v = <<>> THEN rows
    ELSE SelectSeq(rows, LAMBDA c : IContains(c.name, search.v)
                                      \/ IContains(c.description, search.v))

----------------------------------------------------------------------------
(* django.core.paginator as the listings use it (orphans = 0,              *)
(* allow_empty_first_page = True).                                         *)
ProductsPerPage == 6
CategoriesPerPage == 8

Max(a, b) == IF a >= b THEN a ELSE b

(* num_pages without the empty first page.                                 *)
NumPagesMutant(count, per_page) == (count + per_page - 1) \div per_page
(* Paginator.num_pages: ceil(max(1, count) / per_page).                    *)
NumPages(count, per_page) == (Max(1, count) + per_page - 1) \div per_page

(* Paginator.validate_number.                                              *)
ValidateNumber(param, num_pages) ==
    IF param.t # "int" THEN [error |-> "PageNotAnInteger", n |-> 0]
    ELSE IF param.v < 1 THEN [error |-> "EmptyPage", n |-> 0]
    ELSE IF param.v > num_pages THEN [error |-> "EmptyPage", n |-> 0]
    ELSE [error |-> "", n |-> param.v]

(* rows[bottom:top] as Python slices: a negative index counts from the     *)
(* end, and both ends are clipped to the list.                             *)
Min(a, b) == IF a <= b THEN a ELSE b
SliceIndex(i, n) == IF i < 0 THEN Max(0, n + i) ELSE Min(i, n)
Slice(rows, bottom, top) ==
    LET b == SliceIndex(bottom, Len(rows))
        t == SliceIndex(top, Len(rows))
    IN  IF b < t THEN SubSeq(rows, b + 1, t) ELSE <<>>

(* Paginator.page: the slice [bottom:top] of the object list.              *)
Page(rows, per_page, number) ==
    LET bottom == (number - 1) * per_page
        top == IF bottom + per_page >= Len(rows) THEN Len(rows)
               ELSE bottom + per_page
    IN  [status |-> 200, number |-> number,
         items |-> Slice(rows, bottom, top),
         num_pages |-> NumPages(Len(rows), per_page), count |-> Len(rows)]

(* get_page sending every invalid number to page 1.                        *)
GetPageMutant(rows, per_page, param) ==
    LET v == ValidateNumber(param, NumPages(Len(rows), per_page))
    IN  Page(rows, per_page, IF v.error = "" THEN v.n ELSE 1)
(* Paginator.get_page: a bad number is page 1, an empty page is the last.  *)
GetPage(rows, per_page, param) ==
    LET last == NumPages(Len(rows), per_page)
        v == ValidateNumber(param, last)
    IN  Page(rows, per_page,
             IF v.error = "PageNotAnInteger" THEN 1
             ELSE IF v.error = "EmptyPage" THEN last
             ELSE v.n)

NotFound404 ==
    [status |-> 404, number |-> 0, items |-> <<>>, num_pages |-> 0, count |-> 0]

(* MultipleObjectMixin.paginate_queryset: page = param or 1; "last" is the *)
(* last page; anything else that is no integer, and any invalid page, is   *)
(* Http404.                                                                *)
PaginateQueryset(rows, per_page, param) ==
    LET last == NumPages(Len(rows), per_page)
        page == IF param.t = "none" THEN Num(1) ELSE param
    IN  IF page.t = "last" THEN Page(rows, per_page, last)
        ELSE IF ValidateNumber(page, last).error # "" THEN NotFound404
        ELSE Page(rows, per_page, page.v)

(* product_list.                                                           *)
ProductList(search, page) ==
    /\ page_obj' = [op |-> "product_list", search |-> search, page |-> page,
                    per_page |-> ProductsPerPage,
                    out |-> GetPage(ProductSearch(OrderedProducts(products), search),
                                    ProductsPerPage, page)]
    /\ UNCHANGED <<store, result, inflight>>

(* CategoryListView.                                                       *)
CategoryList(search, page) ==
    /\ page_obj' = [op |-> "category_list", search |-> search, page |-> page,
                    per_page |-> CategoriesPerPage,
                    out |-> PaginateQueryset(
                                CategorySearch(OrderedCategories(categories), search),
                                CategoriesPerPage, page)]
    /\ UNCHANGED <<store, result, inflight>>

(* CategoryDetailView.get_context_data: the category's products, paged.    *)
CategoryDetail(pk, page) ==
    /\ page_obj' =
         IF pk \notin CategoryIds
         THEN [op |-> "category_detail", search |-> None, page |-> page,
               per_page |-> ProductsPerPage, out |-> NotFound404]
         ELSE
                   [op |-> "category_detail", search |-> None, page |-> page,
                    per_page |-> ProductsPerPage,
                    out |-> GetPage(OrderedProducts({p \in products : p.category = pk}),
                                    ProductsPerPage, page)]
    /\ UNCHANGED <<store, result, inflight>>

----------------------------------------------------------------------------
(* The requests the specifications draw from.                              *)
CategoryNames == {<<>>, <<"T", "o">>, <<"t", "o">>, <<"o">>}
PkSample == 1..(MaxCategoryId + 1)
ProductPkSample == 1..(MaxProductId + 1)

ProductTexts == {<<>>, <<"o">>}
PriceSample == {None, Text, Num(-1), Num(1)}
StockSample == {None, Text, Num(-1), Frac(0), Num(1)}
CategoryParams == {None, Text} \cup {Num(n) : n \in PkSample}

(* A well-formed submission for category 1, and how far r is from one.     *)
Deviations(r) ==
    {f \in {"name", "price", "description", "instock", "category"} :
        \/ f = "name" /\ r.name # <<"o">>
        \/ f = "price" /\ r.price # Num(1)
        \/ f = "description" /\ r.description # <<"o">>
        \/ f = "instock" /\ r.instock # Num(1)
        \/ f = "category" /\ r.category # Num(1)}

(* Submissions with one field off, or the category and the price off.      *)
CreateRequests ==
    {r \in [name : ProductTexts, price : PriceSample,
            description : ProductTexts, instock : StockSample,
            category : CategoryParams, token : UuidSample] :
        \/ Cardinality(Deviations(r)) <= 1
        \/ Deviations(r) = {"category", "price"}}

(* Well-formed submissions, for any category id.                           *)
PlainRequests ==
    [name : {<<"o">>}, price : {Num(1)}, description : {<<"o">>},
     instock : {Num(1)}, category : {Num(n) : n \in PkSample},
     token : UuidSample]

ModelRows ==
    [id : {nextProductId}, name : {<<"o">>}, price : {100}, instock : {1},
     code : {<<>>}, description : {<<"o">>}, category : CategoryIds,
     created_at : {nextProductId}]

----------------------------------------------------------------------------
(* The catalog, one request at a time: the category views and the          *)
(* products that hang on the categories.                                   *)
Init ==
    /\ categories = {}
    /\ products = {}
    /\ nextCategoryId = 1
    /\ nextProductId = 1
    /\ result = NoResult
    /\ page_obj = NoResult
    /\ inflight = <<>>

Next ==
    \/ \E name \in CategoryNames, d \in ProductTexts : CategoryCreate(name, d)
    \/ \E pk \in PkSample, name \in CategoryNames, d \in ProductTexts :
          CategoryUpdate(pk, name, d)
    \/ \E pk \in PkSample : CategoryDelete(pk)
    \/ \E req \in PlainRequests : ProductCreate(req)
    \/ \E pk \in ProductPkSample : ProductDelete(pk)

Spec == Init /\ [][Next]_vars

(* The catalog, one request at a time: the product views over every kind   *)
(* of submission.                                                          *)
NextProducts ==
    \/ CategoryCreate(<<"o">>, <<"o">>)
    \/ \E pk \in PkSample : CategoryDelete(pk)
    \/ \E req \in CreateRequests : ProductCreate(req)
    \/ \E row \in ModelRows, u \in UuidSample : ProductSave(row, u)
    \/ \E pk \in ProductPkSample : ProductDelete(pk)

SpecProducts == Init /\ [][NextProducts]_vars

----------------------------------------------------------------------------
(* The listings over a catalog of n categories and n products.             *)
MaxCount == 13
MaxPage == 4

HexDigits == <<"0","1","2","3","4","5","6","7","8","9","A","B","C","D","E","F">>

CategoryRow(i) ==
    [id |-> i, name |-> <<LowerLetters[27 - i]>>, description |-> <<"o">>]

ProductRow(i) ==
    [id |-> i, name |-> <<"o">>, price |-> 100, instock |-> 1,
     code |-> <<"0", "0", "0", "0", "0", "0",
                HexDigits[(i \div 16) + 1], HexDigits[(i % 16) + 1]>>,
     description |-> <<"o">>, category |-> 1, created_at |-> i]

Last == [t |-> "last", v |-> 0]
PageParams == {None, Text, Last, Frac(0)} \cup {Num(n) : n \in -1..MaxPage}

InitPage ==
    /\ \E n \in 0..MaxCount :
          /\ categories = {CategoryRow(i) : i \in 1..n}
          /\ products = {ProductRow(i) : i \in 1..n}
          /\ nextCategoryId = n + 1
          /\ nextProductId = n + 1
    /\ result = NoResult
    /\ page_obj = NoResult
    /\ inflight = <<>>

NextPage ==
    \/ \E page \in PageParams : ProductList(None, page)
    \/ \E page \in PageParams : CategoryList(None, page)
    \/ \E page \in PageParams : CategoryDetail(1, page)

SpecPage == InitPage /\ [][NextPage]_vars

----------------------------------------------------------------------------
(* The search over a catalog of a few products.                            *)
MaxFilterRows == 2

FilterCodes == {GenerateCode(Uuid4Str(h)) : h \in {"0", "a", "e"}}
FilterContents ==
    [name : {<<"R", "e">>, <<"H", "a">>},
     description : {<<"r", "e", "d">>, <<"o">>},
     code : FilterCodes]

Search(q) == [t |-> "text", v |-> q]
SearchSample ==
    {None} \cup {Search(q) : q \in {<<>>, <<"r">>, <<"R", "E">>, <<"e">>,
                                    <<"e", "r">>, <<"a">>, <<"0", "0">>,
                                    <<"r", "e", "d", "s">>}}

InitFilter ==
    /\ \E k \in 0..MaxFilterRows :
         \E content \in [1..k -> FilterContents] :
            /\ \A i, j \in 1..k : i # j => content[i].code # content[j].code
            /\ products =
                 {[id |-> i, name |-> content[i].name, price |-> 100,
                   instock |-> 1, code |-> content[i].code,
                   description |-> content[i].description, category |-> 1,
                   created_at |-> i] : i \in 1..k}
            /\ nextProductId = k + 1
    /\ categories = {[id |-> 1, name |-> <<"T", "o">>, description |-> <<"o">>]}
    /\ nextCategoryId = 2
    /\ result = NoResult
    /\ page_obj = NoResult
    /\ inflight = <<>>

NextFilter ==
    \/ \E search \in SearchSample : ProductList(search, None)
    \/ \E search \in SearchSample : CategoryList(search, None)

SpecFilter == InitFilter /\ [][NextFilter]_vars

----------------------------------------------------------------------------
(* Two category requests served at the same time: each validates its form  *)
(* (a read) and then saves (a write); the two steps of one request are not *)
(* one transaction, so the other request may run between them.             *)
Clients == {1, 2}
Idle == [op |-> "none", pk |-> 0, name |-> <<>>, description |-> <<>>,
         pc |-> "idle"]

(* The view up to form.is_valid().                                         *)
Validate(r, op, pk, name, description) ==
    /\ inflight[r].pc = "idle"
    /\ op = "create" => pk = 0
    /\ LET pc == IF op = "update" /\ pk \notin CategoryIds THEN "NotFound"
                 ELSE IF FormStatus(name, description, pk, categories) = "valid"
                 THEN "valid"
                 ELSE "invalid"
       IN  inflight' = [inflight EXCEPT ![r] =
                           [op |-> op, pk |-> pk, name |-> name,
                            description |-> description, pc |-> pc]]
    /\ UNCHANGED <<store, result, page_obj>>

(* form_valid(): form.save().                                              *)
Save(r) ==
    /\ inflight[r].pc = "valid"
    /\ LET q == inflight[r] IN
       IF SaveStatus(q.name, q.pk, categories) # "saved"
       THEN /\ inflight' = [inflight EXCEPT ![r].pc = "IntegrityError"]
            /\ UNCHANGED store
       ELSE IF q.op = "create"
       THEN /\ nextCategoryId <= MaxCategoryId
            /\ categories' = Written(nextCategoryId, q.name, q.description,
                                     categories)
            /\ nextCategoryId' = nextCategoryId + 1
            /\ inflight' = [inflight EXCEPT ![r].pc = "saved"]
            /\ UNCHANGED <<products, nextProductId>>
       ELSE /\ categories' = Written(q.pk, q.name, q.description, categories)
            /\ inflight' = [inflight EXCEPT ![r].pc = "saved"]
            /\ UNCHANGED <<products, nextCategoryId, nextProductId>>
    /\ UNCHANGED <<result, page_obj>>

InitRace ==
    /\ categories = {}
    /\ products = {}
    /\ nextCategoryId = 1
    /\ nextProductId = 1
    /\ result = NoResult
    /\ page_obj = NoResult
    /\ inflight = [r \in Clients |-> Idle]

NextRace ==
    \/ \E r \in Clients, name \in CategoryNames, d \in ProductTexts :
          Validate(r, "create", 0, name, d)
    \/ \E r \in Clients, pk \in PkSample, name \in CategoryNames, d \in ProductTexts :
          Validate(r, "update", pk, name, d)
    \/ \E r \in Clients : Save(r)

SpecRace == InitRace /\ [][NextRace]_vars

----------------------------------------------------------------------------
(* Properties of the category views (Spec).                                *)

(* Two names that differ at most in the case of their letters.             *)
SameFolded(a, b) ==
    /\ Len(a) = Len(b)
    /\ \A i \in 1..Len(a) : LowerChar(a[i]) = LowerChar(b[i])

(* C1: whatever create_category, update_category and delete_category have  *)
(* done, no two stored categories have names equal up to case; and a       *)
(* create whose name equals a stored category's name up to case is         *)
(* rejected with DuplicateName, the table left as it was.                  *)
C1_CaseInsensitiveUnique ==
    /\ \A c, d \in categories : c.id # d.id => ~SameFolded(c.name, d.name)
    /\ (/\ result.op = "category_create"
        /\ \E c \in categories : c.id # result.pk /\ SameFolded(c.name, result.req))
         => /\ result.status = "invalid"
            /\ "DuplicateName" \in result.detail

(* "To" is stored, then "to" is submitted: rejected, one category stored.  *)
C1_Witness ==
    /\ result.op = "category_create"
    /\ result.req = <<"t", "o">>
    /\ result.status = "invalid"
    /\ result.detail = {"DuplicateName"}
    /\ Cardinality(categories) = 1
    /\ \E c \in categories : c.name = <<"T", "o">>

(* No product refers to a category that is not stored.                     *)
NoOrphans == \A p \in products : p.category \in CategoryIds

(* What a step that deletes a category does.                               *)
CascadeStep ==
    (result'.op = "category_delete" /\ result'.status = "deleted")
      => /\ result'.pk \in CategoryIds
         /\ result'.pk \notin {c.id : c \in categories'}
         /\ result'.detail = {p.id : p \in {q \in products : q.category = result'.pk}}
         /\ \A p \in products :
               p.category = result'.pk => GetProduct(p.id, products') = "NotFound"
         /\ \A p \in products : p.category # result'.pk => p \in products'

(* C2: every stored product's category is a stored category, and a         *)
(* delete_category that succeeds removes, in that one step, the category   *)
(* and every product that referred to it: none of them is found afterwards. *)
C2_CascadeDelete == [](NoOrphans) /\ [][CascadeStep]_vars

(* A category with two products has just been deleted.                     *)
C2_Witness ==
    /\ result.op = "category_delete"
    /\ result.status = "deleted"
    /\ Cardinality(result.detail) = 2
    /\ products = {}

----------------------------------------------------------------------------
(* Properties of the product views (SpecProducts).                         *)

UpperAlnum == Range(UpperLetters) \cup Digits

(* A submission that passes every check of product_create short of the     *)
(* INSERT's code uniqueness.                                               *)
WellFormed(req, rows) ==
    /\ req.name # <<>> /\ req.description # <<>>
    /\ req.price.t \in {"int", "frac"}
    /\ req.instock.t = "int" /\ req.instock.v >= 0
    /\ req.category.t = "int" /\ \E c \in rows : c.id = req.category.v

(* C3: every stored product's code is 8 characters, each an upper-case     *)
(* letter or a digit, and no two stored products have the same code.       *)
C3_CodesWellFormedAndUnique ==
    /\ \A p \in products :
          /\ Len(p.code) = 8
          /\ \A i \in 1..Len(p.code) : p.code[i] \in UpperAlnum
    /\ \A p, q \in products : p.id # q.id => p.code # q.code

(* A product holds the code AAAAAAAA and a well-formed product_create that *)
(* drew the same code has just ended without a second such product.        *)
C3_Witness ==
    /\ result.op = "product_create"
    /\ WellFormed(result.req, categories)
    /\ result.req.token = Uuid4Str("a")
    /\ Cardinality({p \in products : p.code = <<"A","A","A","A","A","A","A","A">>}) = 1
    /\ result.status = "Exception"
    /\ \E p \in products : p.code = <<"0","0","0","0","0","0","0","0">>

(* C4, as stated: a creation fails over its code only when every token     *)
(* that a retry could draw collides too.                                   *)
C4_RetriesUntilFresh ==
    (/\ result.op = "product_create"
     /\ WellFormed(result.req, categories)
     /\ result.status # "created")
      => \A u \in UuidSample : \E p \in products : p.code = Upper(SubSeq(u, 1, 8))

(* What a product_create step does with a well-formed submission.          *)
NoRetryStep ==
    (/\ result'.op = "product_create"
     /\ WellFormed(result'.req, categories))
      => LET code == Upper(SubSeq(result'.req.token, 1, 8)) IN
         IF \E p \in products : p.code = code
         THEN /\ result'.status = "Exception"
              /\ products' = products
         ELSE /\ result'.status = "created"
              /\ products' \ products =
                    {p \in products' : p.id = result'.pk /\ p.code = code}
              /\ Cardinality(products' \ products) = 1

(* C4, amended: product_create draws one token and never retries.  A       *)
(* well-formed submission whose code collides with a stored product's code *)
(* fails at once through the generic error branch and stores nothing,      *)
(* whether or not another token would be free; one whose code is free      *)
(* creates the product with that code.                                     *)
C4_NoRetry == [][NoRetryStep]_vars

(* The code drawn collides, another token is free, the creation failed.    *)
C4_Witness ==
    /\ result.op = "product_create"
    /\ WellFormed(result.req, categories)
    /\ result.status = "Exception"
    /\ \E p \in products : p.code = Upper(SubSeq(result.req.token, 1, 8))
    /\ \E u \in UuidSample : \A p \in products : p.code # Upper(SubSeq(u, 1, 8))

(* C8: every stored product has price >= 0 and instock >= 0.               *)
C8_NonNegative ==
    \A p \in products : p.price >= 0 /\ p.instock >= 0

(* What a product_create step reports and writes.                          *)
FailedCreateStep ==
    (result'.op = "product_create")
      => LET req == result'.req
             present == /\ req.name # <<>> /\ req.description # <<>>
                        /\ req.price.t # "none" /\ req.instock.t # "none"
                        /\ req.category.t # "none"
             known == req.category.t = "int"
                        /\ \E c \in categories : c.id = req.category.v
         IN  /\ result'.status # "created"
                  => /\ products' = products
                     /\ categories' = categories
                     /\ nextProductId' = nextProductId
             /\ result'.status = "created" => known
             /\ ~present <=> result'.status = "AllFieldsRequired"
             /\ (present /\ req.category.t = "int" /\ ~known)
                  <=> result'.status = "DoesNotExist"
             /\ (present /\ known
                   /\ (req.price.t \notin {"int", "frac"} \/ req.instock.t # "int"))
                  => result'.status = "ValueError"

(* C9: a product_create that does not create leaves products and           *)
(* categories as they were; a missing field is reported as such; and the   *)
(* category is looked up before the product is built, so that an id that   *)
(* names no category is reported as CategoryNotFound (DoesNotExist) even   *)
(* when the price or the stock would not parse, and a price or stock that  *)
(* does not parse is reported once the category was found.                 *)
C9_FailedCreateWritesNothing == [][FailedCreateStep]_vars

(* A submission whose category id names no category and whose price is no  *)
(* number was answered DoesNotExist, with a product already stored.        *)
C9_Witness ==
    /\ result.op = "product_create"
    /\ result.status = "DoesNotExist"
    /\ result.req.price.t = "text"
    /\ products # {}

----------------------------------------------------------------------------
(* Properties of the search (SpecFilter).                                  *)

(* q occurs in field at some offset, letters compared without case.        *)
Occurs(q, field) ==
    \E k \in 0..Len(field) :
       /\ k + Len(q) <= Len(field)
       /\ \A j \in 1..Len(q) : LowerChar(field[k + j]) = LowerChar(q[j])

Matches(p, q) == Occurs(q, p.name) \/ Occurs(q, p.description) \/ Occurs(q, p.code)

(* C5: for a non-empty query product_list shows exactly the products whose *)
(* name, description or code contains it without regard to case, each      *)
(* once, newest first; for an absent or empty query it shows them all.     *)
C5_SearchExact ==
    page_obj.op = "product_list" =>
       LET items == page_obj.out.items
           q == page_obj.search
           all == q.t = "none" \/ q.v = <<>>
       IN  /\ \A i \in 1..Len(items) :
                 items[i] \in products /\ (all \/ Matches(items[i], q.v))
           /\ \A p \in products :
                 (all \/ Matches(p, q.v)) => \E i \in 1..Len(items) : items[i] = p
           /\ \A i, j \in 1..Len(items) :
                 i < j => items[i].created_at > items[j].created_at
           /\ page_obj.out.count = Len(items)

(* The query "r" against a product that has it in its name and in its      *)
(* description, and a product that has it nowhere.                         *)
C5_Witness ==
    /\ page_obj.op = "product_list"
    /\ page_obj.search = Search(<<"r">>)
    /\ Len(page_obj.out.items) = 1
    /\ page_obj.out.items[1].name = <<"R", "e">>
    /\ page_obj.out.items[1].description = <<"r", "e", "d">>
    /\ Cardinality(products) = 2

----------------------------------------------------------------------------
(* Properties of the paging (SpecPage).                                    *)

(* The list a listing pages, the last page of it, and page n of it.        *)
Listed(op) ==
    IF op = "category_list" THEN OrderedCategories(categories)
    ELSE OrderedProducts(products)

IsCeil(n, count, size) == n * size >= count /\ (n - 1) * size < count

LastPage(count, size) ==
    IF count = 0 THEN 1 ELSE CHOOSE n \in 1..count : IsCeil(n, count, size)

Window(rows, size, n) ==
    [i \in 1..((IF n * size < Len(rows) THEN n * size ELSE Len(rows))
                 - (n - 1) * size) |-> rows[(n - 1) * size + i]]

Shows(po, n) ==
    /\ po.out.status = 200
    /\ po.out.number = n
    /\ po.out.items = Window(Listed(po.op), po.per_page, n)

(* C6, as stated: on both listings an absent or non-numeric page is page   *)
(* 1, a page beyond the last shows the last page, a page below 1 shows     *)
(* page 1, and no page request fails.                                      *)
C6_Clamps ==
    page_obj.op \in {"product_list", "category_list"} =>
       LET last == LastPage(Len(Listed(page_obj.op)), page_obj.per_page)
           page == page_obj.page
       IN  /\ page_obj.out.status = 200
           /\ page.t \in {"none", "text"} => Shows(page_obj, 1)
           /\ (page.t = "int" /\ page.v > last)
                => page_obj.out.items = Window(Listed(page_obj.op), page_obj.per_page, last)
           /\ (page.t = "int" /\ page.v < 1) => Shows(page_obj, 1)

(* C6, amended: the product listing (6 a page) never fails: an absent or   *)
(* non-integer page is page 1, a page beyond the last or below 1 is the    *)
(* last page.  The category listing (8 a page) shows page 1 for an absent  *)
(* page and the last page for "last"; any other non-integer page, a page   *)
(* beyond the last and a page below 1 are answered 404.                    *)
C6_PageNormalisation ==
    /\ page_obj.op = "product_list" =>
          LET last == LastPage(Len(Listed("product_list")), 6)
              page == page_obj.page
          IN  /\ page_obj.per_page = 6
              /\ page.t # "int" => Shows(page_obj, 1)
              /\ (page.t = "int" /\ page.v \in 1..last) => Shows(page_obj, page.v)
              /\ (page.t = "int" /\ page.v \notin 1..last) => Shows(page_obj, last)
    /\ page_obj.op = "category_list" =>
          LET last == LastPage(Len(Listed("category_list")), 8)
              page == page_obj.page
          IN  /\ page_obj.per_page = 8
              /\ page.t = "none" => Shows(page_obj, 1)
              /\ page.t = "last" => Shows(page_obj, last)
              /\ (page.t = "int" /\ page.v \in 1..last) => Shows(page_obj, page.v)
              /\ (page.t \in {"text", "frac"} \/ (page.t = "int" /\ page.v \notin 1..last))
                    => page_obj.out.status = 404

(* Page -1 of a product listing of three pages was asked for, and page 3   *)
(* with its one product was shown.                                         *)
C6_Witness ==
    /\ page_obj.op = "product_list"
    /\ page_obj.page = Num(-1)
    /\ Cardinality(products) = 13
    /\ page_obj.out.number = 3
    /\ Len(page_obj.out.items) = 1

(* C7, as stated: total_pages = 0 exactly when total_count = 0, and        *)
(* ceil(total_count / page_size) otherwise.                                *)
C7_ZeroPagesWhenEmpty ==
    (page_obj.op # "none" /\ page_obj.out.status = 200) =>
       /\ page_obj.out.count = Len(Listed(page_obj.op))
       /\ page_obj.out.num_pages = 0 <=> page_obj.out.count = 0
       /\ page_obj.out.count > 0
            => IsCeil(page_obj.out.num_pages, page_obj.out.count, page_obj.per_page)

(* C7, amended: total_pages is 1 when total_count = 0 (the empty, valid    *)
(* first page) and ceil(total_count / page_size) otherwise; it is never 0. *)
C7_TotalPages ==
    (page_obj.op # "none" /\ page_obj.out.status = 200) =>
       /\ page_obj.out.count = Len(Listed(page_obj.op))
       /\ page_obj.out.count = 0
            => page_obj.out.num_pages = 1 /\ page_obj.out.items = <<>>
       /\ page_obj.out.count > 0
            => IsCeil(page_obj.out.num_pages, page_obj.out.count, page_obj.per_page)

(* The product listing of an empty catalog: one page, nothing on it.       *)
C7_Witness ==
    /\ page_obj.op = "product_list"
    /\ products = {}
    /\ page_obj.out.status = 200
    /\ page_obj.out.count = 0
    /\ page_obj.out.num_pages = 1
    /\ page_obj.out.items = <<>>

----------------------------------------------------------------------------
(* Properties of concurrent category requests (SpecRace).                  *)

(* C10: two concurrent creates whose names are equal up to case are never  *)
(* both saved, and whatever two concurrent creates or updates do, the      *)
(* stored names stay distinct up to case.                                  *)
C10_AtMostOneSucceeds ==
    /\ \A r1, r2 \in Clients :
          (/\ r1 # r2
           /\ inflight[r1].op = "create" /\ inflight[r2].op = "create"
           /\ SameFolded(inflight[r1].name, inflight[r2].name))
            => ~(inflight[r1].pc = "saved" /\ inflight[r2].pc = "saved")
    /\ \A c, d \in categories : c.id # d.id => ~SameFolded(c.name, d.name)

====
